---- MODULE Spec2Model ----
(***************************************************************************)
(* The Flask application of the skin-cancer diagnosis service: module      *)
(* initialisation (app.py 14-21), the /predict, /class_info/<id> and       *)
(* /api/health handlers (app.py), SkinCancerModel (model_loader.py) and    *)
(* ImagePreprocessor (utils.py).                                           *)
(*                                                                         *)
(* Python values are modelled as follows.                                  *)
(*   - a file name is the sequence of its characters;                      *)
(*   - a metadata dict is a function from its keys; the probability dicts, *)
(*     whose insertion order matters (probabilities, formatted_probs,      *)
(*     sorted_probs), are the sequences of their <<key, value>> items;     *)
(*   - a float percentage is [type |-> "float", num |-> n], standing for   *)
(*     the number n / Units; a formatted string "W.FF%" is                 *)
(*     [type |-> "str", whole |-> W, frac |-> FF];                         *)
(*   - None is the string "None" where a string is expected and the        *)
(*     record NoneRecord where a dict or tuple is expected.                *)
(* What the libraries outside the repository return (the decoder, the      *)
(* network's forward pass, tf_keras_vis, the JSON provider) is an input of *)
(* the request, chosen nondeterministically. The routes / and /about       *)
(* read no request input and write nothing; they are left out.             *)
(***************************************************************************)
EXTENDS Integers, Sequences, FiniteSets, TLC

VARIABLES
    model,          \* app.py global `model`: "None" or "SkinCancerModel"
    preprocessor,   \* app.py global `preprocessor`: "None" or "ImagePreprocessor"
    class_info,     \* model.class_info, the dict of K metadata dicts
    activation,     \* model.model.layers[-1].activation
    served,         \* number of requests handled so far
    req,            \* the inputs of the last request handled
    calls,          \* the core operations the last request invoked
    locals,         \* the handler's local variables when the last request returned
    resp            \* the last response: [code, json]

vars == <<model, preprocessor, class_info, activation, served, req, calls, locals, resp>>

-----------------------------------------------------------------------------
(* Bounds of the model *)

\* requests handled in one run
MaxRequests == 3
\* the forward pass yields probabilities that are multiples of 1/Units
Units == 3

-----------------------------------------------------------------------------
(* Data of the program *)

K == 7

None == "None"
NoneRecord == [none |-> TRUE]
IsNone(v) == "none" \in DOMAIN v

class_names ==
    [i \in 0..(K - 1) |->
        <<"Melanoma (MEL)", "Nevus (NV)", "Basal Cell Carcinoma (BCC)",
          "Actinic Keratoses (AKIEC)", "Benign Keratosis (BKL)",
          "Dermatofibroma (DF)", "Vascular lesions (VASC)">>[i + 1]]

ClassInfoAtLoad ==
    [i \in 0..(K - 1) |->
        << [name |-> "Melanoma", abbr |-> "MEL", severity |-> "High",
            description |-> "Most serious type of skin cancer. Requires immediate medical attention.",
            action |-> "Consult a dermatologist immediately",
            common_locations |-> "Face, chest, legs, back"],
           [name |-> "Nevus", abbr |-> "NV", severity |-> "Low",
            description |-> "Common mole, usually benign but monitor for changes.",
            action |-> "Regular self-examination recommended",
            common_locations |-> "Anywhere on body"],
           [name |-> "Basal Cell Carcinoma", abbr |-> "BCC", severity |-> "Medium",
            description |-> "Most common but least dangerous skin cancer. Rarely spreads.",
            action |-> "Schedule dermatologist appointment",
            common_locations |-> "Sun-exposed areas"],
           [name |-> "Actinic Keratoses", abbr |-> "AKIEC", severity |-> "Medium-High",
            description |-> "Pre-cancerous growths that can develop into SCC.",
            action |-> "Consult dermatologist within 2-4 weeks",
            common_locations |-> "Face, ears, scalp, hands"],
           [name |-> "Benign Keratosis", abbr |-> "BKL", severity |-> "Low",
            description |-> "Harmless skin growths, often called seborrheic keratosis.",
            action |-> "No immediate action needed",
            common_locations |-> "Chest, back, face"],
           [name |-> "Dermatofibroma", abbr |-> "DF", severity |-> "Low",
            description |-> "Benign fibrous nodule, usually harmless.",
            action |-> "Monitor for changes",
            common_locations |-> "Legs, arms"],
           [name |-> "Vascular lesions", abbr |-> "VASC", severity |-> "Low-Medium",
            description |-> "Blood vessel abnormalities, usually benign.",
            action |-> "Consult if changing appearance",
            common_locations |-> "Face, neck, upper body"] >>[i + 1]]

\* model.class_info when SkinCancerModel() raised: the object does not exist
NoClassInfo == [i \in {} |-> NoneRecord]

allowed_extensions ==
    { <<"p", "n", "g">>, <<"j", "p", "g">>, <<"j", "p", "e", "g">>,
      <<"b", "m", "p">>, <<"t", "i", "f", "f">> }

-----------------------------------------------------------------------------
(* Inputs *)

\* file names a client may declare: "", "scan", "s.png", "s.PNG", "s.Jpg",
\* "s.jpeg", "s.bmp", "s.tiff", "s.tif", "s.gif", "s.png.exe", "s.exe.png",
\* "s.", ".png", "png"
FileNames ==
    { <<>>,
      <<"s", "c", "a", "n">>,
      <<"s", ".", "p", "n", "g">>,
      <<"s", ".", "P", "N", "G">>,
      <<"s", ".", "J", "p", "g">>,
      <<"s", ".", "j", "p", "e", "g">>,
      <<"s", ".", "b", "m", "p">>,
      <<"s", ".", "t", "i", "f", "f">>,
      <<"s", ".", "t", "i", "f">>,
      <<"s", ".", "g", "i", "f">>,
      <<"s", ".", "p", "n", "g", ".", "e", "x", "e">>,
      <<"s", ".", "e", "x", "e", ".", "p", "n", "g">>,
      <<"s", ".">>,
      <<".", "p", "n", "g">>,
      <<"p", "n", "g">> }

\* outcomes of the tf_keras_vis call of generate_gradcam (lines 125-141):
\*   raise       the call raises (no such layer, a gradient error, ...)
\*   ok          a finite map; model_modifier ran on a model of the library's own
\*   ok_inplace  a finite map; model_modifier ran on self.model itself
\*   nonfinite   a map holding NaN or Inf
CamOutcomes == {"raise", "ok", "ok_inplace", "nonfinite"}

RECURSIVE VectorsSumming(_, _)
\* the sequences of `len` naturals that sum to `total`
VectorsSumming(len, total) ==
    IF len = 0
    THEN IF total = 0 THEN {<<>>} ELSE {}
    ELSE UNION { { <<first>> \o rest : rest \in VectorsSumming(len - 1, total - first) }
                 : first \in 0..total }

\* the outputs of a forward pass: K probabilities (numerators over Units)
\* that sum to 1, indexed from 0
Distributions ==
    { [i \in 0..(K - 1) |-> v[i + 1]] : v \in VectorsSumming(K, Units) }

\* the file names of the requests of a longer run: "", "s.gif", "s.png"
SampleNames ==
    { <<>>, <<"s", ".", "g", "i", "f">>, <<"s", ".", "p", "n", "g">> }

\* the forward passes that put all the mass on one class
OneHot ==
    { [i \in 0..(K - 1) |-> IF i = c THEN Units ELSE 0] : c \in 0..(K - 1) }

NoOutput == [i \in 0..(K - 1) |-> 0]

NoRequest ==
    [route |-> "none", hasFile |-> FALSE, filename |-> <<>>, decodable |-> FALSE,
     forwardOk |-> FALSE, predictions |-> NoOutput, cam |-> "raise",
     jsonOk |-> FALSE, class_id |-> 0]

NoLocals ==
    [preprocessed_image |-> None, prediction |-> NoneRecord,
     heatmap_base64 |-> None, display_image |-> None]

NoResponse == [code |-> 0, json |-> NoneRecord]

-----------------------------------------------------------------------------
(* Python and library operations the handlers use *)

\* str.lower() on the characters the file names use
LowerChar(c) ==
    CASE c = "P" -> "p"
      [] c = "N" -> "n"
      [] c = "G" -> "g"
      [] c = "J" -> "j"
      [] OTHER -> c

lower(s) == [i \in DOMAIN s |-> LowerChar(s[i])]

\* '.' in s
HasDot(s) == \E i \in DOMAIN s : s[i] = "."

RECURSIVE rfind(_, _)
\* the index of the last '.' at or before position i, scanning from the right; 0 if none
rfind(s, i) ==
    IF i = 0 THEN 0
    ELSE IF s[i] = "." THEN i
    ELSE rfind(s, i - 1)

RECURSIVE find(_, _)
\* the index of the first '.' at or after position i; Len(s) + 1 if none
find(s, i) ==
    IF i > Len(s) THEN i
    ELSE IF s[i] = "." THEN i
    ELSE find(s, i + 1)

\* s.split('.', 1)[1]: what follows the first '.', not the last
split_first(s) == SubSeq(s, find(s, 1) + 1, Len(s))

\* s.rsplit('.', 1)[1], for an s that holds a '.'
rsplit_last(s) == SubSeq(s, rfind(s, Len(s)) + 1, Len(s))

Float(n) == [type |-> "float", num |-> n]

\* round(a / b) to the nearest integer, ties to even (a >= 0, b > 0)
RoundHalfEven(a, b) ==
    LET q == a \div b
        r2 == 2 * (a % b)
    IN  IF r2 < b THEN q
        ELSE IF r2 > b THEN q + 1
        ELSE IF q % 2 = 0 THEN q ELSE q + 1

\* f"{x:.2f}%": the hundredths of x, rounded, as whole part and two digits
Format2f(x) ==
    LET h == RoundHalfEven(x.num * 100, Units)
    IN  [type |-> "str", whole |-> h \div 100, frac |-> h % 100]

\* the keys of an ordered dict, and the value of a key
Keys(d) == { d[i][1] : i \in DOMAIN d }
Get(d, k) == d[CHOOSE i \in DOMAIN d : d[i][1] = k][2]

\* d[k] = v on an ordered dict: a present key keeps its place
DictSet(d, k, v) ==
    IF k \in Keys(d)
    THEN [i \in DOMAIN d |-> IF d[i][1] = k THEN <<k, v>> ELSE d[i]]
    ELSE Append(d, <<k, v>>)

\* d[k] = v on a metadata dict (a function from its keys)
SetKey(d, k, v) == [x \in (DOMAIN d) \cup {k} |-> IF x = k THEN v ELSE d[x]]

RECURSIVE argmax_from(_, _, _)
\* np.argmax: scan the outputs in index order and keep the first largest
argmax_from(v, i, best) ==
    IF i > K - 1 THEN best
    ELSE IF v[i] > v[best] THEN argmax_from(v, i + 1, i)
    ELSE argmax_from(v, i + 1, best)

RECURSIVE argmax_last_from(_, _, _)
\* a scan that replaces the best on >=, keeping the last largest
argmax_last_from(v, i, best) ==
    IF i > K - 1 THEN best
    ELSE IF v[i] >= v[best] THEN argmax_last_from(v, i + 1, i)
    ELSE argmax_last_from(v, i + 1, best)

argmax_last(v) == argmax_last_from(v, 1, 0)

argmax(v) == argmax_from(v, 1, 0)

RECURSIVE InsertDescending(_, _)
\* put item x into a list sorted by non-increasing value, behind every
\* item whose value is not smaller (equal values keep their arrival order)
InsertDescending(sortedItems, x) ==
    IF sortedItems = <<>> THEN <<x>>
    ELSE IF Head(sortedItems)[2].num >= x[2].num
         THEN <<Head(sortedItems)>> \o InsertDescending(Tail(sortedItems), x)
         ELSE <<x>> \o sortedItems

RECURSIVE sorted_reverse(_)
\* sorted(items, key=value, reverse=True): stable, largest value first
sorted_reverse(items) ==
    IF items = <<>> THEN <<>>
    ELSE InsertDescending(sorted_reverse(SubSeq(items, 1, Len(items) - 1)),
                          items[Len(items)])

-----------------------------------------------------------------------------
(* ImagePreprocessor (utils.py) *)

\* the names utils.py binds at module level
utils_imports == {"cv2", "np", "Image", "io"}

\* preprocess without the `if image is None` test
preprocess_unchecked(decodable) == "Tensor(224,224,3)"

\* preprocess: the decoder yields no image for undecodable bytes, the method
\* raises ValueError, catches it and returns None
preprocess(decodable) ==
    IF decodable THEN "Tensor(224,224,3)" ELSE None

\* prepare_for_display: the encoding step names base64; an unbound name raises
\* NameError, which the method catches, returning None
prepare_for_display(preprocessed_image) ==
    IF "base64" \in utils_imports THEN "base64(png(display))" ELSE None

-----------------------------------------------------------------------------
(* SkinCancerModel (model_loader.py) *)

RECURSIVE probabilities_loop(_, _, _)
\* for i, prob in enumerate(predictions[0]): probabilities[class_names[i]] = float(prob) * 100
probabilities_loop(predictions, i, probabilities) ==
    IF i > K - 1 THEN probabilities
    ELSE probabilities_loop(predictions, i + 1,
                            DictSet(probabilities, class_names[i], Float(predictions[i] * 100)))

\* predict: (predicted_class, confidence, probabilities), or (None, None, None)
\* when the forward pass raises
predict(forwardOk, predictions) ==
    IF ~forwardOk THEN NoneRecord
    ELSE LET predicted_class == argmax(predictions)
         IN  [predicted_class |-> predicted_class,
              confidence |-> Float(predictions[predicted_class] * 100),
              probabilities |-> probabilities_loop(predictions, 0, <<>>)]

\* generate_gradcam: the encoded figure, or None when anything raised; the
\* attribution map is rendered as it comes, with no test of its values
generate_gradcam(cam) ==
    IF cam = "raise" THEN None ELSE "base64(png(gradcam))"

\* model_modifier: m.layers[-1].activation = linear, on the model m the
\* library hands it
model_modifier(act, cam) ==
    IF cam = "ok_inplace" THEN "linear" ELSE act

\* get_class_info: the stored dict itself, after info['full_name'] = ...
get_class_info(ci, class_idx) ==
    IF class_idx \in DOMAIN ci
    THEN SetKey(ci[class_idx], "full_name", class_names[class_idx])
    ELSE NoneRecord

\* self.class_info after get_class_info(class_idx): info aliases the stored dict
class_info_after(ci, class_idx) ==
    IF class_idx \in DOMAIN ci
    THEN [ci EXCEPT ![class_idx] = SetKey(ci[class_idx], "full_name", class_names[class_idx])]
    ELSE ci

-----------------------------------------------------------------------------
(* app.py: the handlers *)

\* handlers that never test the globals
not_initialized_ignored == FALSE

\* line 31 (and 134, negated): a global left None by the failed initialisation
not_initialized == model = None \/ preprocessor = None

\* lines 46-47: the file name passes the extension test
allowed_file(filename) ==
    /\ HasDot(filename)
    /\ lower(rsplit_last(filename)) \in allowed_extensions

\* lines 73-75: every probability formatted with two decimals
formatted_probs(probabilities) ==
    [i \in DOMAIN probabilities |-> <<probabilities[i][1], Format2f(probabilities[i][2])>>]

\* the sort without reverse=True: smallest first
sorted_probs_ascending(probabilities) ==
    LET d == sorted_reverse(probabilities)
    IN  [i \in DOMAIN d |-> d[Len(d) + 1 - i]]

\* lines 78-80: the probabilities themselves, largest first
sorted_probs(probabilities) == sorted_reverse(probabilities)

ErrorResponse(code, message) == [code |-> code, json |-> [error |-> message]]

\* return jsonify(response), inside the try block. response['prediction']['class']
\* is the numpy integer np.argmax returned, not an int; whether the JSON provider
\* serialises it or raises TypeError is the provider's, so both are kept. What
\* it raises is caught at line 101 and answered with a 500 and the exception text.
jsonify(jsonOk, response) ==
    IF jsonOk THEN [code |-> 200, json |-> response]
    ELSE ErrorResponse(500, "Object of type int64 is not JSON serializable")

\* the request is over: what it read, called, computed and answered
Return(request, called, computed, response) ==
    /\ req' = request
    /\ calls' = called
    /\ locals' = computed
    /\ resp' = response
    /\ served' = served + 1

\* lines 57-103: the request whose inputs are `request`, from the prediction on
\* (the response's timestamp, the clock's reading, is left out)
Infer(request, preprocessed_image) ==
    LET prediction == predict(request.forwardOk, request.predictions)
    IN  IF IsNone(prediction)
        THEN /\ Return(request, {"preprocess", "predict"},
                       [NoLocals EXCEPT !.preprocessed_image = preprocessed_image],
                       ErrorResponse(500, "Prediction failed"))
             /\ UNCHANGED <<model, preprocessor, class_info, activation>>
        ELSE LET predicted_class == prediction.predicted_class
                 heatmap_base64 == generate_gradcam(request.cam)
                 display_image == prepare_for_display(preprocessed_image)
                 info == get_class_info(class_info, predicted_class)
                 response ==
                     [success |-> TRUE,
                      prediction |->
                          [class |-> predicted_class,
                           class_name |-> class_names[predicted_class],
                           confidence |-> Format2f(prediction.confidence),
                           raw_confidence |-> prediction.confidence],
                      probabilities |-> formatted_probs(prediction.probabilities),
                      sorted_probabilities |-> sorted_probs(prediction.probabilities),
                      class_info |-> info,
                      display_image |-> display_image,
                      heatmap |-> heatmap_base64]
             IN  /\ activation' = model_modifier(activation, request.cam)
                 /\ class_info' = class_info_after(class_info, predicted_class)
                 /\ Return(request,
                           {"preprocess", "predict", "generate_gradcam",
                            "prepare_for_display", "get_class_info"},
                           [preprocessed_image |-> preprocessed_image,
                            prediction |-> prediction,
                            heatmap_base64 |-> heatmap_base64,
                            display_image |-> display_image],
                           jsonify(request.jsonOk, response))
                 /\ UNCHANGED <<model, preprocessor>>

\* lines 50-55, then Infer: the request from the try block on
Process(request) ==
    LET preprocessed_image == preprocess(request.decodable)
    IN  IF preprocessed_image = None
        THEN /\ Return(request, {"preprocess"}, NoLocals,
                       ErrorResponse(400, "Could not process image"))
             /\ UNCHANGED <<model, preprocessor, class_info, activation>>
        ELSE Infer(request, preprocessed_image)

\* POST /predict, for a file name among `names` and a forward pass among `outputs`
PredictOf(names, outputs) ==
    \E hasFile \in BOOLEAN, filename \in names :
       LET request == [NoRequest EXCEPT !.route = "predict", !.hasFile = hasFile,
                                        !.filename = IF hasFile THEN filename ELSE <<>>]
           Reject(code, message) ==
               /\ Return(request, {}, NoLocals, ErrorResponse(code, message))
               /\ UNCHANGED <<model, preprocessor, class_info, activation>>
       IN  IF not_initialized
           THEN Reject(500, "Model not loaded. Please check server logs.")
           ELSE IF ~hasFile
           THEN Reject(400, "No file uploaded")
           ELSE IF filename = <<>>
           THEN Reject(400, "No file selected")
           ELSE IF ~allowed_file(filename)
           THEN Reject(400, "Invalid file type. Please upload an image.")
           ELSE \E decodable \in BOOLEAN :
                  IF ~decodable
                  THEN Process(request)
                  ELSE \E forwardOk \in BOOLEAN :
                         IF ~forwardOk
                         THEN Process([request EXCEPT !.decodable = TRUE])
                         ELSE \E predictions \in outputs, cam \in CamOutcomes,
                                 jsonOk \in BOOLEAN :
                                Process([request EXCEPT !.decodable = TRUE,
                                                        !.forwardOk = TRUE,
                                                        !.predictions = predictions,
                                                        !.cam = cam,
                                                        !.jsonOk = jsonOk])

\* POST /predict
Predict ==
    /\ served < MaxRequests
    /\ PredictOf(SampleNames, OneHot)

\* a range test that lets K through
valid_class_id_off_by_one(class_id) == 0 <= class_id /\ class_id <= K

\* line 111: 0 <= class_id < len(model.class_names)
valid_class_id(class_id) == 0 <= class_id /\ class_id < K

\* the class ids the route /class_info/<int:class_id> passes to its handler
ClassIds == 0..(K + 1)

\* GET /class_info/<int:class_id>
GetClassInfo ==
    /\ served < MaxRequests
    /\ \E class_id \in ClassIds :
          LET request == [NoRequest EXCEPT !.route = "class_info", !.class_id = class_id]
          IN  IF model = None
              THEN /\ Return(request, {}, NoLocals, ErrorResponse(500, "Model not loaded"))
                   /\ UNCHANGED <<model, preprocessor, class_info, activation>>
              ELSE IF valid_class_id(class_id)
              THEN /\ Return(request, {"get_class_info"}, NoLocals,
                             [code |-> 200, json |-> get_class_info(class_info, class_id)])
                   /\ class_info' = class_info_after(class_info, class_id)
                   /\ UNCHANGED <<model, preprocessor, activation>>
              ELSE /\ Return(request, {}, NoLocals, ErrorResponse(404, "Invalid class ID"))
                   /\ UNCHANGED <<model, preprocessor, class_info, activation>>

\* GET /api/health
HealthCheck ==
    /\ served < MaxRequests
    /\ Return([NoRequest EXCEPT !.route = "health"], {}, NoLocals,
              IF ~not_initialized
              THEN [code |-> 200, json |-> [status |-> "healthy", model_loaded |-> TRUE]]
              ELSE [code |-> 500, json |-> [status |-> "unhealthy", model_loaded |-> FALSE]])
    /\ UNCHANGED <<model, preprocessor, class_info, activation>>

-----------------------------------------------------------------------------
(* The service *)

\* lines 14-21: both globals are set, or both are None
Loaded ==
    /\ model = "SkinCancerModel"
    /\ preprocessor = "ImagePreprocessor"
    /\ class_info = ClassInfoAtLoad
    /\ activation = "softmax"

LoadFailed ==
    /\ model = None
    /\ preprocessor = None
    /\ class_info = NoClassInfo
    /\ activation = None

Init ==
    /\ Loaded \/ LoadFailed
    /\ served = 0
    /\ req = NoRequest
    /\ calls = {}
    /\ locals = NoLocals
    /\ resp = NoResponse

Next == Predict \/ GetClassInfo \/ HealthCheck

Spec == Init /\ [][Next]_vars

(* One upload to a service just started, for every file name of FileNames  *)
(* and every output the forward pass can give: the upload to come is drawn  *)
(* with the initial state (req.filename, req.predictions) and then handled. *)

InitUpload ==
    /\ Loaded \/ LoadFailed
    /\ served = 0
    /\ \E filename \in FileNames, predictions \in Distributions :
          req = [NoRequest EXCEPT !.filename = filename, !.predictions = predictions]
    /\ calls = {}
    /\ locals = NoLocals
    /\ resp = NoResponse

\* POST /predict of the upload drawn
PredictPending ==
    /\ served = 0
    /\ PredictOf({req.filename}, {req.predictions})

SpecUpload == InitUpload /\ [][PredictPending]_vars

-----------------------------------------------------------------------------
(* Properties *)

IsPredict == req.route = "predict"

\* the response is an error that carries a message
IsErrorWithMessage ==
    /\ resp.code >= 400
    /\ DOMAIN resp.json = {"error"}
    /\ resp.json.error # ""

\* the last request reached the classification and it returned a result
Classified == "predict" \in calls /\ ~IsNone(locals.prediction)

\* C1: a /predict request whose bytes cannot be decoded ends in an error
\* response with a message; preprocess, if reached, returned no tensor; and
\* neither SkinCancerModel.predict nor generate_gradcam was invoked for it.
C1_UndecodableNeverClassified ==
    (IsPredict /\ ~req.decodable) =>
        /\ IsErrorWithMessage
        /\ "preprocess" \in calls =>
              /\ locals.preprocessed_image = None
              /\ resp.code = 400
        /\ "predict" \notin calls
        /\ "generate_gradcam" \notin calls

C1_Witness ==
    /\ IsPredict
    /\ ~req.decodable
    /\ calls = {"preprocess"}
    /\ resp = ErrorResponse(400, "Could not process image")

\* the service answers nothing but errors and reports itself unhealthy
Unserved ==
    /\ IsPredict => (IsErrorWithMessage /\ calls = {})
    /\ req.route = "class_info" => (IsErrorWithMessage /\ calls = {})
    /\ req.route = "health" =>
          (resp.code = 500 /\ resp.json.status = "unhealthy" /\ ~resp.json.model_loaded)

\* C2: when the model failed to load at startup, every later request finds
\* the service uninitialised: no /predict is served (each ends in an error
\* with no call of preprocess, predict or generate_gradcam), the health check
\* reports unhealthy, and no step ever makes the service initialised.
C2_LoadFailureIsPermanent ==
    /\ [](model = None => (preprocessor = None /\ Unserved))
    /\ [][model = None => model' = None]_vars

C2_Witness ==
    /\ model = None
    /\ served = MaxRequests
    /\ IsPredict
    /\ req.hasFile
    /\ req.filename = <<"s", ".", "p", "n", "g">>
    /\ resp.code = 500

\* C3: when preprocessing and classification succeeded and generate_gradcam
\* failed, the request still succeeds: the response is the success record, it
\* carries the class index, class name, confidence and probabilities of the
\* classification, and its heatmap is None.
C3_ExplanationFailureTolerated ==
    (IsPredict /\ Classified /\ "generate_gradcam" \in calls /\ req.cam = "raise") =>
        /\ resp.code = 200
        /\ resp.json.success
        /\ resp.json.heatmap = None
        /\ resp.json.prediction.class = locals.prediction.predicted_class
        /\ resp.json.prediction.class_name = class_names[locals.prediction.predicted_class]
        /\ resp.json.prediction.raw_confidence = locals.prediction.confidence
        /\ Len(resp.json.probabilities) = K

\* C4: after any sequence of requests the shared state of a loaded service is
\* what it was right after startup: the K metadata records and the model's
\* output activation are unchanged.
C4_SharedStateUnchanged ==
    model # None =>
        /\ class_info = ClassInfoAtLoad
        /\ activation = "softmax"

\* the response is the metadata record of class i: every field the record was
\* loaded with, with its loaded value
IsRecordOfClass(i) ==
    /\ resp.code = 200
    /\ ~IsNone(resp.json)
    /\ \A k \in DOMAIN ClassInfoAtLoad[i] :
          k \in DOMAIN resp.json /\ resp.json[k] = ClassInfoAtLoad[i][k]

\* C5: a metadata query to the loaded service returns the record of class i
\* for every i in 0..K-1 and fails with the out-of-range error for every other
\* index; no query, loaded or not, ever returns an empty or null record.
C5_MetadataQueryInRange ==
    req.route = "class_info" =>
        /\ (model # None /\ req.class_id \in 0..(K - 1)) => IsRecordOfClass(req.class_id)
        /\ (model # None /\ req.class_id \notin 0..(K - 1)) =>
              resp = ErrorResponse(404, "Invalid class ID")
        /\ model = None => IsErrorWithMessage
        /\ ~IsNone(resp.json)
        /\ DOMAIN resp.json # {}

C5_Witness ==
    /\ req.route = "class_info"
    /\ model # None
    /\ req.class_id = K
    /\ resp.code = 404

\* C6: for every classification that succeeded, the class is the lowest index
\* holding the largest of the K outputs, the confidence is that output times
\* 100 and equals the probability-map entry of the class's name, and the map
\* has one entry per class.
C6_ArgmaxAndConfidence ==
    Classified =>
        LET out == req.predictions
            p == locals.prediction
            c == p.predicted_class
        IN  /\ c \in 0..(K - 1)
            /\ \A j \in 0..(K - 1) : out[j] <= out[c]
            /\ \A j \in 0..(K - 1) : j < c => out[j] < out[c]
            /\ p.confidence = Float(out[c] * 100)
            /\ p.confidence = Get(p.probabilities, class_names[c])
            /\ Len(p.probabilities) = K
            /\ Keys(p.probabilities) = { class_names[i] : i \in 0..(K - 1) }
            /\ Cardinality(Keys(p.probabilities)) = K

\* two classes tie for the largest output and the lower one is predicted
C6_Witness ==
    /\ Classified
    /\ \E j \in 0..(K - 1) :
          /\ j > locals.prediction.predicted_class
          /\ req.predictions[j] = req.predictions[locals.prediction.predicted_class]

\* the declared format: what follows the last '.', in lower case, is on the list
FormatOnAllowList(f) ==
    \E i \in DOMAIN f :
        /\ f[i] = "."
        /\ \A j \in (i + 1)..Len(f) : f[j] # "."
        /\ lower(SubSeq(f, i + 1, Len(f))) \in
              { <<"p", "n", "g">>, <<"j", "p", "g">>, <<"j", "p", "e", "g">>,
                <<"b", "m", "p">>, <<"t", "i", "f", "f">> }

\* C7: a /predict request with no file, no extension or a format off the
\* allow-list ends in an error with a message before preprocess, predict or
\* generate_gradcam is invoked; a request whose format is on the allow-list is
\* never answered with the invalid-file-type error, and the loaded service
\* goes on to preprocess it.
C7_FormatAllowList ==
    IsPredict =>
        /\ (~req.hasFile \/ ~FormatOnAllowList(req.filename)) =>
              (IsErrorWithMessage /\ calls = {})
        /\ (req.hasFile /\ FormatOnAllowList(req.filename)) =>
              /\ resp # ErrorResponse(400, "Invalid file type. Please upload an image.")
              /\ model # None => "preprocess" \in calls

C7_Witness ==
    /\ IsPredict
    /\ req.hasFile
    /\ req.filename = <<"s", ".", "p", "n", "g", ".", "e", "x", "e">>
    /\ resp = ErrorResponse(400, "Invalid file type. Please upload an image.")
    /\ calls = {}

\* C8: whenever preprocess and classify succeeded, prepare_for_display yields
\* an encoded image, not None, and a success response carries it.
C8_DisplayImagePresent ==
    (IsPredict /\ Classified) =>
        /\ "prepare_for_display" \in calls
        /\ locals.display_image # None
        /\ resp.code = 200 => resp.json.display_image = locals.display_image

\* C9: when the attribution map holds a non-finite value, generate_gradcam
\* fails: it returns no overlay.
C9_NonFiniteMapFails ==
    (IsPredict /\ "generate_gradcam" \in calls /\ req.cam = "nonfinite") =>
        locals.heatmap_base64 = None

\* the items of an ordered dict come by non-increasing value
NonIncreasing(d) ==
    \A i, j \in DOMAIN d : i < j => d[i][2].num >= d[j][2].num

IsSuccessRecord == IsPredict /\ resp.code = 200

IsTwoDecimalsOf(str, x) ==
    /\ str.type = "str"
    /\ x.type = "float"
    /\ str.frac \in 0..99
    /\ LET h == 100 * str.whole + str.frac
           d == h * Units - 100 * x.num
       IN  2 * d <= Units /\ -2 * d <= Units

====
